---- MODULE Spec2Model ----
(***************************************************************************)
(* Model of superset-plugin-chart-antv-pivot:                              *)
(*   - transformProps: the reshape of a flat query result into the pivot   *)
(*     configuration (temporal formatting, row / column / grand totals);   *)
(*   - SupersetPluginChartLiquid: the React component whose effect mounts  *)
(*     the PivotSheet widget into the container and clears it on teardown. *)
(* JavaScript strings are sequences of tokens; the token "-" is the        *)
(* separator character used by join('-') and split('-').                   *)
(***************************************************************************)
EXTENDS Integers, Sequences, FiniteSets, TLC

VARIABLES chartProps, called, result, locals,
          phase, containerRef, children, stale, atConstruct, runs,
          logged, hostError, cleanupError, lastOutcome, prevOutcome

vars == <<chartProps, called, result, locals,
          phase, containerRef, children, stale, atConstruct, runs,
          logged, hostError, cleanupError, lastOutcome, prevOutcome>>

tvars == <<chartProps, called, result, locals>>

lvars == <<phase, containerRef, children, stale, atConstruct, runs,
           logged, hostError, cleanupError, lastOutcome, prevOutcome>>

(* ---------------------------- bounds ----------------------------------- *)
MaxRows == 2
MaxRuns == 3
MaxChanged == 1

(* ------------------------ JavaScript values ---------------------------- *)
Null == [t |-> "null", n |-> 0, s |-> <<>>]
Undef == [t |-> "undefined", n |-> 0, s |-> <<>>]
Num(n) == [t |-> "number", n |-> n, s |-> <<>>]
Str(s) == [t |-> "string", n |-> 0, s |-> s]

Digits == <<"0", "1", "2", "3", "4", "5", "6", "7", "8", "9">>

RECURSIVE NumStr(_)
NumStr(n) ==
    IF n < 0 THEN <<"-">> \o NumStr(-n)
    ELSE IF n < 10 THEN <<Digits[n + 1]>>
    ELSE NumStr(n \div 10) \o <<Digits[(n % 10) + 1]>>

\* String(v) / the string conversion used by + with a string operand
JsString(v) ==
    CASE v.t = "null" -> <<"n", "u", "l", "l">>
      [] v.t = "undefined" -> <<"undefined">>
      [] v.t = "number" -> NumStr(v.n)
      [] OTHER -> v.s

\* the conversion Array.prototype.join applies to an element
JoinStr(v) ==
    IF v.t \in {"null", "undefined"} THEN <<>> ELSE JsString(v)

RECURSIVE Join(_, _)
Join(vals, sep) ==
    IF Len(vals) = 0 THEN <<>>
    ELSE IF Len(vals) = 1 THEN JoinStr(vals[1])
    ELSE JoinStr(vals[1]) \o <<sep>> \o Join(Tail(vals), sep)

\* String.prototype.split(sep): the pieces between the separators
RECURSIVE Split(_, _)
Split(s, sep) ==
    IF \A i \in 1..Len(s) : s[i] # sep THEN <<s>>
    ELSE LET i == CHOOSE j \in 1..Len(s) :
                      s[j] = sep /\ \A k \in 1..(j - 1) : s[k] # sep
         IN <<SubSeq(s, 1, i - 1)>> \o Split(SubSeq(s, i + 1, Len(s)), sep)

Truthy(v) ==
    CASE v.t = "number" -> v.n # 0
      [] v.t = "string" -> v.s # <<>>
      [] OTHER -> FALSE

\* v || 0
OrZero(v) == IF Truthy(v) THEN v ELSE Num(0)

\* a + b
JsPlus(a, b) ==
    IF a.t = "string" \/ b.t = "string"
    THEN Str(JsString(a) \o JsString(b))
    ELSE Num(a.n + b.n)

\* obj[key] on an object modelled as a function: undefined when absent
Get(obj, key) == IF key \in DOMAIN obj THEN obj[key] ELSE Undef

Range(f) == {f[i] : i \in DOMAIN f}

(* ------------------------------ inputs --------------------------------- *)
colnames == <<"region", "ts", "qty", "amt">>
coltypes == <<"STRING", "TEMPORAL", "NUMERIC", "NUMERIC">>
GenericDataType_TEMPORAL == "TEMPORAL"
SmartDateFormatterId == "smart_date"
NoGranularity == "undefined"

RegionValues == {Str(<<"a">>), Str(<<"b">>)}
TsValues == {Null, Num(1), Str(<<"x">>)}
QtyValues == {Undef, Num(1)}
AmtValues == {Num(2)}

ResultRows ==
    {[c \in Range(colnames) |->
        CASE c = "region" -> r [] c = "ts" -> d [] c = "qty" -> q [] OTHER -> a]
     : r \in RegionValues, d \in TsValues, q \in QtyValues, a \in AmtValues}

RECURSIVE SeqsUpTo(_, _)
SeqsUpTo(S, n) ==
    IF n = 0 THEN {<<>>}
    ELSE LET shorter == SeqsUpTo(S, n - 1)
         IN shorter \cup {Append(q, x) : q \in {p \in shorter : Len(p) = n - 1}, x \in S}

GroupbyChoices ==
    {[rows |-> <<"region">>, cols |-> <<"ts">>],
     [rows |-> <<"region", "ts">>, cols |-> <<>>]}
MetricChoices == {<<"qty">>, <<"qty", "amt">>}
DateFormats == {SmartDateFormatterId, "", "%Y"}
Granularities == {NoGranularity, "P1D"}

ChartPropsDomain ==
    {[data |-> d, groupbyRows |-> g.rows, groupbyColumns |-> g.cols,
      metrics |-> m, dateFormat |-> f, granularity |-> gr, transposePivot |-> tp]
     : d \in SeqsUpTo(ResultRows, MaxRows), g \in GroupbyChoices,
       m \in MetricChoices, f \in DateFormats, gr \in Granularities,
       tp \in BOOLEAN}

(* --------------------------- transformProps ---------------------------- *)
\* new Date(v).getTime(): milliseconds since the epoch, or "NaN" for an
\* Invalid Date.  new Date(null) is the epoch, new Date(undefined) is invalid,
\* a string is parsed (of the strings used here only "1970" is a date).
DateOf(v) ==
    CASE v.t = "number" -> [valid |-> TRUE, time |-> v.n]
      [] v.t = "null" -> [valid |-> TRUE, time |-> 0]
      [] v.t = "string" /\ v.s = <<"1", "9", "7", "0">> -> [valid |-> TRUE, time |-> 0]
      [] OTHER -> [valid |-> FALSE, time |-> 0]

\* two-digit seconds field of a time within the first minute of the epoch (UTC)
SecondsField(time) ==
    LET sec == (time \div 1000) % 60
    IN IF sec < 10 THEN <<"0">> \o NumStr(sec) ELSE NumStr(sec)

\* the display string a resolved formatter returns for a Date (times of the
\* first minute of 1970-01-01 UTC; an Invalid Date prints NaN fields)
ApplyFormatter(fm, date) ==
    CASE fm.kind = "STRING" ->
           IF date.valid
           THEN Str(<<"Thu Jan 01 1970 00:00:">> \o SecondsField(date.time) \o <<" GMT+0000">>)
           ELSE Str(<<"Invalid Date">>)
      [] fm.kind = "DATABASE_DATETIME" ->
           IF date.valid
           THEN Str(<<"1970", "-", "01", "-", "01", " ", "00:00:">> \o SecondsField(date.time))
           ELSE Str(<<"NaN", "-", "NaN", "-", "NaN", " ", "NaN:NaN:NaN">>)
      [] fm.kind = "GRANULARITY" ->
           IF date.valid
           THEN Str(<<"1970", "-", "01", "-", "01">>)
           ELSE Str(<<"NaN", "-", "NaN", "-", "NaN">>)
      [] OTHER ->
           IF date.valid THEN Str(<<"1970">>) ELSE Str(<<"NaN">>)

\* isNumeric with the null test left out
isNumeric_NullDisqualifies(key, data) ==
    \A i \in 1..Len(data) :
        \/ data[i][key].t = "undefined"
        \/ data[i][key].t = "number"

isNumeric(key, data) ==
    \A i \in 1..Len(data) :
        \/ data[i][key].t = "null"
        \/ data[i][key].t = "undefined"
        \/ data[i][key].t = "number"

\* the formatter resolved for one temporal column; kind "none" when the
\* local variable formatter stays undefined
ResolveFormatter(cp, temporalColname) ==
    IF cp.dateFormat = SmartDateFormatterId
    THEN IF cp.granularity # NoGranularity
         THEN [kind |-> "GRANULARITY", arg |-> cp.granularity]
         ELSE IF isNumeric(temporalColname, cp.data)
              THEN [kind |-> "DATABASE_DATETIME", arg |-> "%Y-%m-%d %H:%M:%S"]
              ELSE [kind |-> "STRING", arg |-> ""]
    ELSE IF cp.dateFormat # ""
         THEN [kind |-> "D3", arg |-> cp.dateFormat]
         ELSE [kind |-> "none", arg |-> ""]

TemporalColnames ==
    {colnames[i] : i \in {j \in 1..Len(colnames) : coltypes[j] = GenericDataType_TEMPORAL}}

dateFormatters(cp) ==
    LET registered == {c \in TemporalColnames : ResolveFormatter(cp, c).kind # "none"}
    IN [c \in registered |-> ResolveFormatter(cp, c)]

\* the reshaped row without the copy of the non-temporal columns
TransformItem_NoCopy(fmts, item) ==
    [c \in DOMAIN item |->
        IF c \in DOMAIN fmts THEN ApplyFormatter(fmts[c], DateOf(item[c]))
        ELSE Undef]

\* one reshaped row: temporal columns with a formatter are formatted, every
\* other key of the input row is copied (Undef stands for an absent key)
TransformItem(fmts, item) ==
    [c \in DOMAIN item |->
        IF c \in DOMAIN fmts THEN ApplyFormatter(fmts[c], DateOf(item[c]))
        ELSE item[c]]

transformedData(cp) ==
    LET fmts == dateFormatters(cp)
    IN [i \in 1..Len(cp.data) |-> TransformItem(fmts, cp.data[i])]

formattedMetrics(cp) == cp.metrics

fields(cp) ==
    [rows |-> IF cp.transposePivot THEN cp.groupbyColumns ELSE cp.groupbyRows,
     columns |-> IF cp.transposePivot THEN cp.groupbyRows ELSE cp.groupbyColumns,
     values |-> formattedMetrics(cp),
     valueInCols |-> TRUE]

GroupKey(dims, item) == Join([i \in 1..Len(dims) |-> item[dims[i]]], "-")

\* totalsMap[key] += item[metric] || 0, for each metric in turn
RECURSIVE AddMetrics(_, _, _)
AddMetrics(acc, item, metrics) ==
    IF Len(metrics) = 0 THEN acc
    ELSE AddMetrics(JsPlus(acc, OrZero(Get(item, metrics[1]))), item, Tail(metrics))

\* the forEach step without the test for a key already in the map
AccumulateItem_AlwaysNewKey(map, dims, metrics, item) ==
    LET key == GroupKey(dims, item)
        total == AddMetrics(Num(0), item, metrics)
    IN [keys |-> Append(map.keys, key),
        val |-> [k \in (DOMAIN map.val) \cup {key} |->
                    IF k = key THEN total ELSE map.val[k]]]

\* one forEach step of the totals map; the map is the pair of its keys in
\* insertion order and its values
AccumulateItem(map, dims, metrics, item) ==
    LET key == GroupKey(dims, item)
        present == key \in DOMAIN map.val
        start == IF present /\ Truthy(map.val[key]) THEN map.val[key] ELSE Num(0)
        total == AddMetrics(start, item, metrics)
    IN [keys |-> IF present THEN map.keys ELSE Append(map.keys, key),
        val |-> [k \in (DOMAIN map.val) \cup {key} |->
                    IF k = key THEN total ELSE map.val[k]]]

RECURSIVE TotalsMap(_, _, _, _)
TotalsMap(data, dims, metrics, n) ==
    IF n = 0 THEN [keys |-> <<>>, val |-> <<>>]
    ELSE AccumulateItem(TotalsMap(data, dims, metrics, n - 1), dims, metrics, data[n])

\* Object.keys order: canonical array-index keys in ascending numeric order
\* first, then the remaining keys in insertion order
IsDigit(c) == \E d \in 1..10 : Digits[d] = c

IsArrayIndex(k) ==
    /\ Len(k) > 0
    /\ \A i \in 1..Len(k) : IsDigit(k[i])
    /\ (Len(k) > 1 => k[1] # "0")

RECURSIVE KeyNum(_)
KeyNum(k) ==
    IF Len(k) = 0 THEN 0
    ELSE 10 * KeyNum(SubSeq(k, 1, Len(k) - 1))
         + ((CHOOSE d \in 1..10 : Digits[d] = k[Len(k)]) - 1)

RECURSIVE SortIndexKeys(_)
SortIndexKeys(S) ==
    IF S = {} THEN <<>>
    ELSE LET least == CHOOSE k \in S : \A o \in S : KeyNum(k) <= KeyNum(o)
         IN <<least>> \o SortIndexKeys(S \ {least})

ObjectKeys(map) ==
    SortIndexKeys({k \in Range(map.keys) : IsArrayIndex(k)})
    \o SelectSeq(map.keys, LAMBDA k : ~IsArrayIndex(k))

\* one total record: dimension fields from the split key, then every metric
\* field set to the map's value for the key
TotalsItem(map, dims, metrics, key) ==
    LET parts == Split(key, "-")
    IN [f \in Range(dims) \cup Range(metrics) |->
          IF f \in Range(metrics) THEN map.val[key]
          ELSE LET index == CHOOSE i \in 1..Len(dims) :
                                dims[i] = f /\ \A j \in (i + 1)..Len(dims) : dims[j] # f
               IN IF index <= Len(parts) THEN Str(parts[index]) ELSE Undef]

TotalsData(map, dims, metrics) ==
    LET keys == ObjectKeys(map)
    IN [i \in 1..Len(keys) |-> TotalsItem(map, dims, metrics, keys[i])]

\* sum[metric] = (sum[metric] || 0) + item[metric], for each metric
RECURSIVE SumMetrics(_, _, _)
SumMetrics(sum, item, metrics) ==
    IF Len(metrics) = 0 THEN sum
    ELSE LET m == metrics[1]
             v == JsPlus(OrZero(Get(sum, m)), Get(item, m))
         IN SumMetrics([f \in (DOMAIN sum) \cup {m} |-> IF f = m THEN v ELSE sum[f]],
                       item, Tail(metrics))

\* rowTotalsData.reduce(..., {})
RECURSIVE ReduceTotals(_, _, _)
ReduceTotals(totals, metrics, n) ==
    IF n = 0 THEN <<>>
    ELSE SumMetrics(ReduceTotals(totals, metrics, n - 1), totals[n], metrics)

\* the body of transformProps: the returned props object (the fields the
\* widget consumes) and the values of the local variables at the return
transformProps(cp) ==
    LET metrics == formattedMetrics(cp)
        data == transformedData(cp)
        rowTotalsMap == TotalsMap(data, cp.groupbyRows, metrics, Len(data))
        rowTotalsData == TotalsData(rowTotalsMap, cp.groupbyRows, metrics)
        colTotalsMap == TotalsMap(data, cp.groupbyColumns, metrics, Len(data))
        colTotalsData == TotalsData(colTotalsMap, cp.groupbyColumns, metrics)
        sumOfRowTotals == ReduceTotals(rowTotalsData, metrics, Len(rowTotalsData))
        totalData == rowTotalsData \o colTotalsData \o <<sumOfRowTotals>>
    IN [props |-> [data |-> data,
                   fields |-> fields(cp),
                   groupbyRows |-> cp.groupbyRows,
                   groupbyColumns |-> cp.groupbyColumns,
                   totalData |-> totalData],
        locals |-> [dateFormatters |-> dateFormatters(cp),
                    rowKeys |-> ObjectKeys(rowTotalsMap),
                    colKeys |-> ObjectKeys(colTotalsMap),
                    rowTotalsData |-> rowTotalsData,
                    colTotalsData |-> colTotalsData,
                    sumOfRowTotals |-> sumOfRowTotals]]

NoResult ==
    [data |-> <<>>, fields |-> [rows |-> <<>>, columns |-> <<>>, values |-> <<>>, valueInCols |-> TRUE],
     groupbyRows |-> <<>>, groupbyColumns |-> <<>>, totalData |-> <<>>]

NoLocals ==
    [dateFormatters |-> <<>>, rowKeys |-> <<>>, colKeys |-> <<>>,
     rowTotalsData |-> <<>>, colTotalsData |-> <<>>, sumOfRowTotals |-> <<>>]

TransformProps ==
    /\ ~called
    /\ called' = TRUE
    /\ LET r == transformProps(chartProps)
       IN /\ result' = r.props
          /\ locals' = r.locals
    /\ UNCHANGED chartProps
    /\ UNCHANGED lvars

(* -------------------- SupersetPluginChartLiquid ------------------------ *)
\* the props the component destructures
PropNames ==
    {"width", "height", "fields", "meta", "data", "groupbyRows", "groupbyColumns",
     "rowTotals", "rowSubTotals", "colTotals", "colSubTotals", "totalData",
     "rowTotalsRename", "colTotalsRename"}

\* the dependency list of useEffect
EffectDeps ==
    {"width", "height", "fields", "meta", "data", "groupbyRows", "groupbyColumns",
     "rowTotals", "rowSubTotals", "colTotals", "colSubTotals"}

\* what the PivotSheet constructor and render() can do: succeed, or throw
\* before / after the constructor attached its canvas to the container, or
\* throw in render()
WidgetOutcomes == {"ok", "ctorThrowsEarly", "ctorThrowsLate", "renderThrows"}

\* while (container.firstChild) container.removeChild(container.firstChild);
\* reading firstChild of a null container throws a TypeError
ClearContainer(ref, kids) ==
    IF ref = "null" THEN [threw |-> TRUE, children |-> kids]
    ELSE [threw |-> FALSE, children |-> <<>>]

\* new PivotSheet(containerRef.current, ...) followed by s2.render()
ConstructAndRender(kids, run, w) ==
    CASE w = "ctorThrowsEarly" -> [threw |-> TRUE, children |-> kids]
      [] w = "ctorThrowsLate" ->
           [threw |-> TRUE, children |-> Append(kids, [run |-> run, rendered |-> FALSE])]
      [] w = "renderThrows" ->
           [threw |-> TRUE, children |-> Append(kids, [run |-> run, rendered |-> FALSE])]
      [] OTHER ->
           [threw |-> FALSE, children |-> Append(kids, [run |-> run, rendered |-> TRUE])]

\* the body with the clearing loop placed after render() instead of before
\* the constructor
fetchDataAndRenderSheet_ClearLast(ref, kids, run, w) ==
    LET built == ConstructAndRender(kids, run, w)
        cleared == ClearContainer(ref, built.children)
    IN IF built.threw
       THEN [children |-> built.children, logged |-> 1, escaped |-> FALSE,
             atConstruct |-> Len(kids), outcome |-> w]
       ELSE [children |-> cleared.children, logged |-> IF cleared.threw THEN 1 ELSE 0,
             escaped |-> FALSE, atConstruct |-> Len(kids),
             outcome |-> IF cleared.threw THEN "clearThrows" ELSE w]

\* the body of the async function, try / catch included: nothing escapes it
fetchDataAndRenderSheet(ref, kids, run, w) ==
    LET cleared == ClearContainer(ref, kids)
        built == ConstructAndRender(cleared.children, run, w)
    IN IF cleared.threw
       THEN [children |-> cleared.children, logged |-> 1, escaped |-> FALSE,
             atConstruct |-> -1, outcome |-> "clearThrows"]
       ELSE [children |-> built.children, logged |-> IF built.threw THEN 1 ELSE 0,
             escaped |-> FALSE, atConstruct |-> Len(cleared.children), outcome |-> w]

\* the function the effect returns
EffectCleanup(ref, kids) == ClearContainer(ref, kids)

\* first render and commit: the div is created, the ref attached, the effect
\* scheduled
Mount ==
    /\ phase = "init"
    /\ containerRef' = "div"
    /\ children' = <<>>
    /\ phase' = "effectPending"
    /\ UNCHANGED <<stale, atConstruct, runs, logged, hostError, cleanupError,
                   lastOutcome, prevOutcome>>
    /\ UNCHANGED tvars

\* the effect callback runs: fetchDataAndRenderSheet() with the props of the
\* committed render in its closure
RunEffect(w) ==
    /\ phase = "effectPending"
    /\ LET r == fetchDataAndRenderSheet(containerRef, children, runs + 1, w)
       IN /\ children' = r.children
          /\ logged' = logged + r.logged
          /\ hostError' = (hostError \/ r.escaped)
          /\ atConstruct' = r.atConstruct
          /\ prevOutcome' = lastOutcome
          /\ lastOutcome' = r.outcome
    /\ runs' = runs + 1
    /\ stale' = {}
    /\ phase' = "idle"
    /\ UNCHANGED <<containerRef, cleanupError>>
    /\ UNCHANGED tvars

\* the host re-renders the component, the props in changed get new values;
\* the effect is re-scheduled when one of its dependencies changed
PropsChange(changed) ==
    /\ phase = "idle"
    /\ runs < MaxRuns
    /\ stale' = (stale \ changed) \cup (changed \ stale)
    /\ phase' = IF changed \cap EffectDeps # {} THEN "cleanupPending" ELSE "idle"
    /\ UNCHANGED <<containerRef, children, atConstruct, runs, logged, hostError,
                   cleanupError, lastOutcome, prevOutcome>>
    /\ UNCHANGED tvars

\* the cleanup of the previous effect run, before the effect runs again
RunCleanup ==
    /\ phase = "cleanupPending"
    /\ LET c == EffectCleanup(containerRef, children)
       IN /\ children' = c.children
          /\ cleanupError' = (cleanupError \/ c.threw)
    /\ phase' = "effectPending"
    /\ UNCHANGED <<containerRef, stale, atConstruct, runs, logged, hostError,
                   lastOutcome, prevOutcome>>
    /\ UNCHANGED tvars

\* the host removes the component.  The ref of the div is detached in the
\* commit; whether the effect cleanup runs before that (synchronous passive
\* unmount) or after it (deferred passive unmount) depends on the React build
Unmount(refDetachedFirst) ==
    /\ phase = "idle"
    /\ containerRef' = IF refDetachedFirst THEN "null" ELSE "div"
    /\ phase' = "teardownPending"
    /\ UNCHANGED <<children, stale, atConstruct, runs, logged, hostError,
                   cleanupError, lastOutcome, prevOutcome>>
    /\ UNCHANGED tvars

\* the cleanup of the last effect run on final removal
RunTeardown ==
    /\ phase = "teardownPending"
    /\ LET c == EffectCleanup(containerRef, children)
       IN /\ children' = c.children
          /\ cleanupError' = (cleanupError \/ c.threw)
    /\ containerRef' = "null"
    /\ phase' = "unmounted"
    /\ UNCHANGED <<stale, atConstruct, runs, logged, hostError,
                   lastOutcome, prevOutcome>>
    /\ UNCHANGED tvars

(* --------------------------- specifications ---------------------------- *)
InitComponent ==
    /\ phase = "init"
    /\ containerRef = "null"
    /\ children = <<>>
    /\ stale = {}
    /\ atConstruct = -1
    /\ runs = 0
    /\ logged = 0
    /\ hostError = FALSE
    /\ cleanupError = FALSE
    /\ lastOutcome = "none"
    /\ prevOutcome = "none"

\* transformProps applied to every chartProps of the bounded domain
Init ==
    /\ chartProps \in ChartPropsDomain
    /\ called = FALSE
    /\ result = NoResult
    /\ locals = NoLocals
    /\ InitComponent

Next == TransformProps

Spec == Init /\ [][Next]_vars

\* the component's life: mount, effect runs, prop changes, removal
InitLife ==
    /\ chartProps = [data |-> <<>>, groupbyRows |-> <<>>, groupbyColumns |-> <<>>,
                     metrics |-> <<>>, dateFormat |-> "", granularity |-> NoGranularity,
                     transposePivot |-> FALSE]
    /\ called = FALSE
    /\ result = NoResult
    /\ locals = NoLocals
    /\ InitComponent

ChangeSets == {S \in SUBSET PropNames : Cardinality(S) <= MaxChanged}

NextLife ==
    \/ Mount
    \/ \E w \in WidgetOutcomes : RunEffect(w)
    \/ \E changed \in ChangeSets : PropsChange(changed)
    \/ RunCleanup
    \/ \E refDetachedFirst \in BOOLEAN : Unmount(refDetachedFirst)
    \/ RunTeardown

SpecLife == InitLife /\ [][NextLife]_vars

\* transformProps applied to result sets whose dimension column holds every
\* scalar kind: null, the empty string, a number, its numeral, a word
KeyRegionValues == {Null, Str(<<>>), Num(1), Str(<<"1">>), Str(<<"a">>)}
KeyTsValues == {Null, Num(1)}

KeyResultRows ==
    {[c \in Range(colnames) |->
        CASE c = "region" -> r [] c = "ts" -> d [] c = "qty" -> Num(1) [] OTHER -> Num(2)]
     : r \in KeyRegionValues, d \in KeyTsValues}

KeyChartPropsDomain ==
    {[data |-> d, groupbyRows |-> g.rows, groupbyColumns |-> g.cols,
      metrics |-> m, dateFormat |-> f, granularity |-> NoGranularity,
      transposePivot |-> FALSE]
     : d \in SeqsUpTo(KeyResultRows, MaxRows), g \in GroupbyChoices,
       m \in MetricChoices, f \in DateFormats}

InitKeys ==
    /\ chartProps \in KeyChartPropsDomain
    /\ called = FALSE
    /\ result = NoResult
    /\ locals = NoLocals
    /\ InitComponent

SpecKeys == InitKeys /\ [][Next]_vars

(* ------------------------ claims: transformProps ----------------------- *)
\* a metric value as a number, a missing or falsy value counting as 0
MetricNumber(v) == IF v.t = "number" THEN v.n ELSE 0

RECURSIVE SumOfSet(_, _)
SumOfSet(S, f) ==
    IF S = {} THEN 0
    ELSE LET x == CHOOSE y \in S : TRUE
         IN f[x] + SumOfSet(S \ {x}, f)

\* sum of metric m over the input rows with the indices in S
InputSum(S, m) == SumOfSet(S, [j \in S |-> MetricNumber(Get(chartProps.data[j], m))])

\* indices of the rows whose values of the dimensions dims join to key
Members(dims, key) ==
    {j \in 1..Len(result.data) : GroupKey(dims, result.data[j]) = key}

DistinctKeys(dims) == {GroupKey(dims, result.data[j]) : j \in 1..Len(result.data)}

\* C1: for every metric m and every row group g, the row-total record of g
\* holds under m the sum of m over exactly the rows that join to g, for any
\* number of configured metrics
C1_RowTotalIsSumOfMetric ==
    called =>
        \A i \in 1..Len(locals.rowKeys) : \A m \in Range(chartProps.metrics) :
            locals.rowTotalsData[i][m]
                = Num(InputSum(Members(chartProps.groupbyRows, locals.rowKeys[i]), m))

\* C2: for every metric m the grand-total record (last element of totalData)
\* holds the sum of m across the row-total records, and that equals the sum of
\* m across all input rows
C2_GrandTotalIsSumOfAllRows ==
    called =>
        LET grand == result.totalData[Len(result.totalData)]
        IN \A m \in Range(chartProps.metrics) :
              /\ MetricNumber(Get(grand, m))
                    = SumOfSet(1..Len(locals.rowTotalsData),
                               [i \in 1..Len(locals.rowTotalsData) |->
                                   MetricNumber(Get(locals.rowTotalsData[i], m))])
              /\ MetricNumber(Get(grand, m)) = InputSum(1..Len(chartProps.data), m)

\* C3: with transposePivot set, row totals are grouped by the list emitted as
\* fields.rows and column totals by the list emitted as fields.columns, and the
\* reshaped rows are those computed without transpose
C3_TransposeSwapsAggregationKeys ==
    (called /\ chartProps.transposePivot) =>
        LET metrics == chartProps.metrics
            n == Len(result.data)
            byRows == TotalsData(TotalsMap(result.data, result.fields.rows, metrics, n),
                                 result.fields.rows, metrics)
            byColumns == TotalsData(TotalsMap(result.data, result.fields.columns, metrics, n),
                                    result.fields.columns, metrics)
        IN /\ result.fields.rows = chartProps.groupbyColumns
           /\ result.fields.columns = chartProps.groupbyRows
           /\ locals.rowTotalsData = byRows
           /\ locals.colTotalsData = byColumns
           /\ result.data = transformedData([chartProps EXCEPT !.transposePivot = FALSE])

\* the strategy the four-branch policy prescribes for a temporal column
PolicyStrategy(c) ==
    LET smart == chartProps.dateFormat = SmartDateFormatterId
        known == chartProps.granularity # NoGranularity
        numeric == \A j \in 1..Len(chartProps.data) :
                       chartProps.data[j][c] \in {Null, Undef}
                       \/ chartProps.data[j][c].t = "number"
    IN CASE smart /\ known -> "GRANULARITY"
         [] smart /\ ~known /\ numeric -> "DATABASE_DATETIME"
         [] smart /\ ~known /\ ~numeric -> "STRING"
         [] ~smart /\ chartProps.dateFormat # "" -> "D3"
         [] OTHER -> "none"

\* C4: each TEMPORAL column gets exactly the strategy of the priority list
\* (granularity, database-datetime when all values are numbers / null /
\* undefined, identity string conversion, explicit format); otherwise no
\* formatter is registered and the column's values are copied unchanged
C4_FormatterSelection ==
    called =>
        \A c \in TemporalColnames :
            IF PolicyStrategy(c) = "none"
            THEN /\ c \notin DOMAIN locals.dateFormatters
                 /\ \A j \in 1..Len(chartProps.data) :
                        result.data[j][c] = chartProps.data[j][c]
            ELSE /\ c \in DOMAIN locals.dateFormatters
                 /\ locals.dateFormatters[c].kind = PolicyStrategy(c)
                 /\ (PolicyStrategy(c) = "D3"
                        => locals.dateFormatters[c].arg = chartProps.dateFormat)
                 /\ \A j \in 1..Len(chartProps.data) :
                        result.data[j][c]
                            = ApplyFormatter([kind |-> PolicyStrategy(c), arg |-> ""],
                                             DateOf(chartProps.data[j][c]))

\* C4 witness: a column of null values only, smart format, no granularity,
\* resolved to the database-datetime formatter
C4_Witness ==
    /\ called
    /\ Len(chartProps.data) = MaxRows
    /\ \A j \in 1..Len(chartProps.data) : chartProps.data[j]["ts"] = Null
    /\ chartProps.dateFormat = SmartDateFormatterId
    /\ chartProps.granularity = NoGranularity
    /\ locals.dateFormatters["ts"].kind = "DATABASE_DATETIME"

\* C5: one reshaped row per input row, in input order, every non-temporal
\* column carrying the input row's value
C5_OneRowPerInputRow ==
    called =>
        /\ Len(result.data) = Len(chartProps.data)
        /\ \A j \in 1..Len(chartProps.data) :
              \A c \in Range(colnames) \ TemporalColnames :
                  Get(result.data[j], c) = chartProps.data[j][c]

\* C5 witness: two different input rows reshaped, the temporal column
\* rewritten by a formatter
C5_Witness ==
    /\ called
    /\ Len(chartProps.data) = MaxRows
    /\ chartProps.data[1]["region"] # chartProps.data[2]["region"]
    /\ chartProps.data[1]["qty"] # chartProps.data[2]["qty"]
    /\ result.data[1]["ts"] # chartProps.data[1]["ts"]
    /\ Len(result.data) = MaxRows

\* C9: totalData is the row-total records (one per distinct row key), then
\* the column-total records (one per distinct column key), then one
\* grand-total record, which is last also for an input without rows
C9_TotalDataLayout ==
    called =>
        LET nr == Cardinality(DistinctKeys(chartProps.groupbyRows))
            nc == Cardinality(DistinctKeys(chartProps.groupbyColumns))
            td == result.totalData
        IN /\ Len(td) = nr + nc + 1
           /\ Len(locals.rowKeys) = nr
           /\ Range(locals.rowKeys) = DistinctKeys(chartProps.groupbyRows)
           /\ Len(locals.colKeys) = nc
           /\ Range(locals.colKeys) = DistinctKeys(chartProps.groupbyColumns)
           /\ SubSeq(td, 1, nr) = locals.rowTotalsData
           /\ SubSeq(td, nr + 1, nr + nc) = locals.colTotalsData
           /\ \A i \in 1..nr :
                 DOMAIN td[i] = Range(chartProps.groupbyRows) \cup Range(chartProps.metrics)
           /\ \A i \in (nr + 1)..(nr + nc) :
                 DOMAIN td[i] = Range(chartProps.groupbyColumns) \cup Range(chartProps.metrics)
           /\ td[Len(td)] = locals.sumOfRowTotals
           /\ DOMAIN td[Len(td)] \subseteq Range(chartProps.metrics)

\* C9 witness: two rows of one row group and two column groups give
\* 1 + 2 + 1 records
C9_Witness ==
    /\ called
    /\ Len(chartProps.data) = 2
    /\ Cardinality(DistinctKeys(chartProps.groupbyRows)) = 1
    /\ Cardinality(DistinctKeys(chartProps.groupbyColumns)) = 2
    /\ Len(result.totalData) = 4

\* C11: for a temporal column resolved to the identity strategy (formatter =
\* String) every reshaped row carries the raw input value unchanged, that is
\* the plain string conversion of the value of the input row
C11_IdentityPassesRawValue ==
    called =>
        \A c \in DOMAIN locals.dateFormatters :
            locals.dateFormatters[c].kind = "STRING" =>
                \A j \in 1..Len(chartProps.data) :
                    result.data[j][c] = Str(JsString(chartProps.data[j][c]))

\* no value of a grouping dimension in the reshaped rows contains '-'
NoSeparatorIn(dims) ==
    \A j \in 1..Len(result.data) : \A k \in 1..Len(dims) :
        LET str == JoinStr(result.data[j][dims[k]])
        IN \A p \in 1..Len(str) : str[p] # "-"

\* the total records of one axis carry, for every dimension, the value the
\* rows of their group have in that dimension
RoundTrip(dims, keys, totals) ==
    \A i \in 1..Len(keys) : \A k \in 1..Len(dims) :
        \A j \in Members(dims, keys[i]) :
            totals[i][dims[k]] = result.data[j][dims[k]]

\* C12: when no dimension value contains '-', every row-total (column-total)
\* record carries for the i-th dimension exactly the i-th dimension value of
\* the rows of its group, for strings, numbers and null
C12_GroupKeyRoundTrip ==
    called =>
        /\ NoSeparatorIn(chartProps.groupbyRows)
              => RoundTrip(chartProps.groupbyRows, locals.rowKeys, locals.rowTotalsData)
        /\ NoSeparatorIn(chartProps.groupbyColumns)
              => RoundTrip(chartProps.groupbyColumns, locals.colKeys, locals.colTotalsData)

\* two rows fall into the same total record of an axis exactly when they
\* have the same value in every dimension of the axis
ExactGrouping(dims) ==
    \A j1, j2 \in 1..Len(result.data) :
        (GroupKey(dims, result.data[j1]) = GroupKey(dims, result.data[j2]))
            <=> (\A k \in 1..Len(dims) :
                    result.data[j1][dims[k]] = result.data[j2][dims[k]])

\* C13: when no dimension value contains '-', two rows are accumulated into
\* the same row-total (column-total) record if and only if their values agree
\* in every grouping dimension, null, the empty string, a number and its
\* numeral counting as different values
C13_GroupingIsExact ==
    called =>
        /\ NoSeparatorIn(chartProps.groupbyRows) => ExactGrouping(chartProps.groupbyRows)
        /\ NoSeparatorIn(chartProps.groupbyColumns)
              => ExactGrouping(chartProps.groupbyColumns)

(* ------------------------- claims: component --------------------------- *)
\* C6: the container never holds the output of more than one widget: every
\* PivotSheet is constructed on a container without child nodes, and after a
\* re-render that follows a successful render exactly one widget, the one of
\* the latest effect run, is mounted
C6_AtMostOneWidget ==
    /\ Len(children) <= 1
    /\ (runs > 0 /\ lastOutcome # "clearThrows" => atConstruct = 0)
    /\ (phase = "idle" /\ runs >= 2 /\ prevOutcome = "ok" /\ lastOutcome = "ok"
           => children = <<[run |-> runs, rendered |-> TRUE]>>)

\* C6 witness: a second effect run, after a dependency change, rendered its
\* widget after the first one had rendered
C6_Witness ==
    /\ phase = "idle"
    /\ runs >= 2
    /\ prevOutcome = "ok"
    /\ lastOutcome = "ok"
    /\ Len(children) = 1

\* C7: every change of a prop (totalData, rowTotalsRename and colTotalsRename
\* included) leads to a new widget built with the current values: once the
\* component is quiescent no prop differs from the value the last effect run
\* was given
C7_EveryChangeRerenders ==
    phase = "idle" => stale = {}

\* C8: after an effect run in which the constructor or render() threw, the
\* error has been logged, nothing reached the host and the container has no
\* child nodes
C8_FailureLeavesBlankContainer ==
    (phase = "idle" /\ lastOutcome \in WidgetOutcomes \ {"ok"})
        => (logged > 0 /\ ~hostError /\ children = <<>>)

\* C10: every teardown, before a re-run of the effect and on final removal,
\* leaves the container without child nodes and raises no error
C10_TeardownClearsWithoutError ==
    /\ ~cleanupError
    /\ (phase = "effectPending" => children = <<>>)
    /\ (phase = "unmounted" => children = <<>>)

====
